---- MODULE Spec2Model ----
(***************************************************************************)
(* Procedural PBR texture tooling of the AstraWeave repository:            *)
(*   scripts/generate_mra_textures.py, scripts/generate_extended_materials *)
(*   .py (value noise, MRA synthesis), tools/pbr_gen (texture-pack         *)
(*   generator and asset importer), tools/scripts/migrate_awtex2_to_ktx2   *)
(*   .py (format migration).                                               *)
(* Real numbers are exact rationals: a numerator over a named denominator. *)
(***************************************************************************)
EXTENDS Integers, Sequences, FiniteSets, TLC

\* Section A: two threads generating value noise in one process.
VARIABLES rng, tpc, tfn, tseed, tgrid, tfield
\* Section B: two independent runs (processes) of a material script.
VARIABLES script, hashKey, rdir, rpc, rdone, rseeds, rtex, rlog
\* Section C: one pixel through a parameter synthesizer.
VARIABLES synPc, synScript, synMat, synIn, synOut, synFiles

\* Section D: the texture-pack generator followed by the asset importer.
VARIABLES gargs, nyS, gpc, gi, gerr, gdirs, gfs, glog
VARIABLES iargs, idrift, ipc, ii, ierr, idirs, ifs

\* Section E: a run of the format migration, and a later run over the same
\* files.
VARIABLES margs, mfmt, mmeta, mpc, mi, mstatus, stats, mbackup, mbakes, mexit
VARIABLES mrun, mprev

\* Section F: the normal field derived from one height field.
VARIABLES nh, npc, nsrc, nconv, nfield

\* Section G: one field value on its way into an 8-bit image.
VARIABLES qv, qpc, qfn, qbyte, qerr

\* Section H: one pixel of one multi_octave_noise call.
VARIABLES moOctaves, moPc, moO, moAmp, moFreq, moTotal, moResult, moLayers

noiseVars == <<rng, tpc, tfn, tseed, tgrid, tfield>>
runVars == <<script, hashKey, rdir, rpc, rdone, rseeds, rtex, rlog>>
synVars == <<synPc, synScript, synMat, synIn, synOut, synFiles>>

genVars == <<gargs, nyS, gpc, gi, gerr, gdirs, gfs, glog>>
impVars == <<iargs, idrift, ipc, ii, ierr, idirs, ifs>>
pipeVars == <<genVars, impVars>>

migVars == <<margs, mfmt, mmeta, mpc, mi, mstatus, stats, mbackup, mbakes, mexit, mrun, mprev>>

normVars == <<nh, npc, nsrc, nconv, nfield>>

quantVars == <<qv, qpc, qfn, qbyte, qerr>>

octVars == <<moOctaves, moPc, moO, moAmp, moFreq, moTotal, moResult, moLayers>>

vars == <<noiseVars, runVars, synVars, pipeVars, migVars, normVars, quantVars, octVars>>

\* What each section leaves alone.
notNoise == <<octVars, quantVars, runVars, synVars, pipeVars, migVars, normVars>>
notRun == <<octVars, quantVars, noiseVars, synVars, pipeVars, migVars, normVars>>
notSyn == <<octVars, quantVars, noiseVars, runVars, pipeVars, migVars, normVars>>
notPipe == <<octVars, quantVars, noiseVars, runVars, synVars, migVars, normVars>>
notMig == <<octVars, quantVars, noiseVars, runVars, synVars, pipeVars, normVars>>
notNorm == <<octVars, quantVars, noiseVars, runVars, synVars, pipeVars, migVars>>
notQuant == <<octVars, noiseVars, runVars, synVars, pipeVars, migVars, normVars>>
notOct == <<quantVars, noiseVars, runVars, synVars, pipeVars, migVars, normVars>>

Min(a, b) == IF a <= b THEN a ELSE b
Max(a, b) == IF a >= b THEN a ELSE b

(***************************************************************************)
(* Section A.  Value noise on the interpreter's shared generator.          *)
(* random.seed / random.random act on the one module-level generator of    *)
(* the process; a thread switch can fall between any two of these calls.   *)
(***************************************************************************)

\* Bounds of the noise model.
NoiseW == 2
NoiseH == 1
NoiseScale == 2
NumSeeds == 2
RngMod == 16
\* Largest dimension and scale for which the cell indices are enumerated.
MaxDim == 8

\* RESOLUTION and the lattice scales the two scripts call the noise functions
\* with (128.0, 48.0, 16.0, 64.0; 128 / freq down to 8)
RESOLUTION == 1024
CallScales == {128, 64, 48, 32, 16, 8}

Thread == {1, 2}
NoiseFn == {"generate_perlin_noise", "noise_layer"}
NoiseSeeds == 1..NumSeeds

\* random.seed(seed): the generator state is a function of the seed alone.
SeedState(seed) == seed % RngMod
\* random.random(): advances the generator; the draw is state / RngMod in [0,1).
RngStep(s) == (5 * s + 3) % RngMod

\* int(width / scale) + 2
GridSizeShort(dim, scale) == (dim \div scale) + 1
GridSize(dim, scale) == (dim \div scale) + 2
grid_w == GridSize(NoiseW, NoiseScale)
grid_h == GridSize(NoiseH, NoiseScale)

\* The lattice a call draws when nothing else touches the generator:
\* grid[iy][ix] is entry iy * grid_w + ix + 1 of the sequence of draws.
RECURSIVE DrawsFrom(_, _)
DrawsFrom(s, n) == IF n = 0 THEN <<>> ELSE <<RngStep(s)>> \o DrawsFrom(RngStep(s), n - 1)
GridAlone(seed) == DrawsFrom(SeedState(seed), grid_w * grid_h)

GridAt(grid, iy, ix) == grid[iy * grid_w + ix + 1]

\* fx * fx * (3 - 2 * fx) for fx = f / scale, as a numerator over scale^3.
Smooth(f, scale) == f * f * (3 * scale - 2 * f)
Cube(scale) == scale * scale * scale

\* generate_perlin_noise, one pixel: the fraction is taken before the index clamp.
\* The value is a numerator over RngMod * scale^6.
PerlinPixel(grid, x, y, scale) ==
    LET ix0 == x \div scale
        iy0 == y \div scale
        fx == Smooth(x - ix0 * scale, scale)
        fy == Smooth(y - iy0 * scale, scale)
        ix == Min(ix0, grid_w - 2)
        iy == Min(iy0, grid_h - 2)
        c == Cube(scale)
        v00 == GridAt(grid, iy, ix)
        v10 == GridAt(grid, iy, ix + 1)
        v01 == GridAt(grid, iy + 1, ix)
        v11 == GridAt(grid, iy + 1, ix + 1)
        v0 == v00 * c + (v10 - v00) * fx
        v1 == v01 * c + (v11 - v01) * fx
    IN  v0 * c + (v1 - v0) * fy

\* noise_layer, one pixel: the index is clamped first, the fraction taken after.
LayerPixel(grid, x, y, scale) ==
    LET ix == Min(x \div scale, grid_w - 2)
        iy == Min(y \div scale, grid_h - 2)
        fx == Smooth(x - ix * scale, scale)
        fy == Smooth(y - iy * scale, scale)
        c == Cube(scale)
    IN  (GridAt(grid, iy, ix) * (c - fx) + GridAt(grid, iy, ix + 1) * fx) * (c - fy)
        + (GridAt(grid, iy + 1, ix) * (c - fx) + GridAt(grid, iy + 1, ix + 1) * fx) * fy

NoiseField(fn, grid) ==
    [y \in 0..(NoiseH - 1) |->
        [x \in 0..(NoiseW - 1) |->
            IF fn = "noise_layer" THEN LayerPixel(grid, x, y, NoiseScale)
                                  ELSE PerlinPixel(grid, x, y, NoiseScale)]]

FieldAlone(fn, seed) == NoiseField(fn, GridAlone(seed))

NoiseInit ==
    /\ rng = 0
    /\ tpc = [t \in Thread |-> "call"]
    /\ tfn \in [Thread -> NoiseFn]
    /\ tseed \in [Thread -> NoiseSeeds]
    /\ tgrid = [t \in Thread |-> <<>>]
    /\ tfield = [t \in Thread |-> <<>>]

NoiseIdle ==
    /\ rng = 0
    /\ tpc = [t \in Thread |-> "off"]
    /\ tfn = [t \in Thread |-> "noise_layer"]
    /\ tseed = [t \in Thread |-> 1]
    /\ tgrid = [t \in Thread |-> <<>>]
    /\ tfield = [t \in Thread |-> <<>>]

\* random.seed(seed)
NoiseSeed(t) ==
    /\ tpc[t] = "call"
    /\ rng' = SeedState(tseed[t])
    /\ tpc' = [tpc EXCEPT ![t] = "draw"]
    /\ UNCHANGED <<tfn, tseed, tgrid, tfield, notNoise>>

\* one random.random() of the lattice comprehension
NoiseDraw(t) ==
    /\ tpc[t] = "draw"
    /\ Len(tgrid[t]) < grid_w * grid_h
    /\ rng' = RngStep(rng)
    /\ tgrid' = [tgrid EXCEPT ![t] = Append(@, RngStep(rng))]
    /\ tpc' = [tpc EXCEPT ![t] =
                 IF Len(tgrid[t]) + 1 = grid_w * grid_h THEN "interp" ELSE "draw"]
    /\ UNCHANGED <<tfn, tseed, tfield, notNoise>>

\* the interpolation loops and the return
NoiseInterp(t) ==
    /\ tpc[t] = "interp"
    /\ tfield' = [tfield EXCEPT ![t] = NoiseField(tfn[t], tgrid[t])]
    /\ tpc' = [tpc EXCEPT ![t] = "done"]
    /\ UNCHANGED <<rng, tfn, tseed, tgrid, notNoise>>

NoiseNext ==
    \E t \in Thread : NoiseSeed(t) \/ NoiseDraw(t) \/ NoiseInterp(t)

(***************************************************************************)
(* Section B.  Material presets and the seeds derived from material names. *)
(* Preset values are in hundredths.                                        *)
(***************************************************************************)
MATERIAL_PRESETS ==
    [grass        |-> [metallic |-> 0, roughness |-> 85, ao_base |-> 90,  variation |-> 8],
     dirt         |-> [metallic |-> 0, roughness |-> 90, ao_base |-> 85,  variation |-> 10],
     sand         |-> [metallic |-> 0, roughness |-> 80, ao_base |-> 95,  variation |-> 6],
     stone        |-> [metallic |-> 0, roughness |-> 75, ao_base |-> 88,  variation |-> 12],
     forest_floor |-> [metallic |-> 0, roughness |-> 92, ao_base |-> 80,  variation |-> 10],
     rock_lichen  |-> [metallic |-> 0, roughness |-> 82, ao_base |-> 85,  variation |-> 10],
     rock_slate   |-> [metallic |-> 0, roughness |-> 60, ao_base |-> 90,  variation |-> 8],
     plaster      |-> [metallic |-> 0, roughness |-> 78, ao_base |-> 92,  variation |-> 6],
     roof_tile    |-> [metallic |-> 0, roughness |-> 65, ao_base |-> 88,  variation |-> 8],
     cloth        |-> [metallic |-> 0, roughness |-> 88, ao_base |-> 92,  variation |-> 5],
     tree_bark    |-> [metallic |-> 0, roughness |-> 90, ao_base |-> 78,  variation |-> 12],
     tree_leaves  |-> [metallic |-> 0, roughness |-> 70, ao_base |-> 85,  variation |-> 8],
     default      |-> [metallic |-> 0, roughness |-> 50, ao_base |-> 100, variation |-> 0]]

EXTENDED_MATERIALS ==
    [snow          |-> [metallic |-> 0,  roughness |-> 70, ao_base |-> 95, variation |-> 5],
     ice           |-> [metallic |-> 2,  roughness |-> 15, ao_base |-> 98, variation |-> 4],
     mountain_rock |-> [metallic |-> 0,  roughness |-> 80, ao_base |-> 82, variation |-> 14],
     mud           |-> [metallic |-> 0,  roughness |-> 45, ao_base |-> 85, variation |-> 10],
     gravel        |-> [metallic |-> 0,  roughness |-> 88, ao_base |-> 80, variation |-> 12],
     moss          |-> [metallic |-> 0,  roughness |-> 82, ao_base |-> 88, variation |-> 8],
     cobblestone   |-> [metallic |-> 0,  roughness |-> 72, ao_base |-> 78, variation |-> 12],
     wood_planks   |-> [metallic |-> 0,  roughness |-> 75, ao_base |-> 85, variation |-> 10],
     metal_rusted  |-> [metallic |-> 35, roughness |-> 78, ao_base |-> 82, variation |-> 15]]

\* dict iteration order of the two registries
MraOrder ==
    <<"grass", "dirt", "sand", "stone", "forest_floor", "rock_lichen", "rock_slate",
      "plaster", "roof_tile", "cloth", "tree_bark", "tree_leaves", "default">>
ExtOrder ==
    <<"snow", "ice", "mountain_rock", "mud", "gravel", "moss", "cobblestone",
      "wood_planks", "metal_rusted">>

ScriptOrder(sc) == IF sc = "mra" THEN MraOrder ELSE ExtOrder

\* Bound: the number of values the interpreter's per-process string-hash key takes.
NumHashKeys == 3
HashMask == 65535

\* hash(material_name) & 0xFFFF of CPython 3.11 for five values of the per-process
\* string-hash key (the key PYTHONHASHSEED = 0, 21, 156, 303, 360 selects).  The
\* scripts set no PYTHONHASHSEED, so the key is drawn at interpreter start.
HashTable ==
    <<
     \* PYTHONHASHSEED=0
     [grass |-> 62631, dirt |-> 60539, sand |-> 55264, stone |-> 39409,
      forest_floor |-> 37677, rock_lichen |-> 35063, rock_slate |-> 50200,
      plaster |-> 42273, roof_tile |-> 24570, cloth |-> 49272, tree_bark |-> 30628,
      tree_leaves |-> 25920, default |-> 57401, snow |-> 46434, ice |-> 8574,
      mountain_rock |-> 10507, mud |-> 57424, gravel |-> 50251, moss |-> 42887,
      cobblestone |-> 60922, wood_planks |-> 22940, metal_rusted |-> 8517],
     \* PYTHONHASHSEED=21
     [grass |-> 23533, dirt |-> 4043, sand |-> 60673, stone |-> 26912,
      forest_floor |-> 46254, rock_lichen |-> 21134, rock_slate |-> 44854,
      plaster |-> 36484, roof_tile |-> 47214, cloth |-> 44215, tree_bark |-> 52192,
      tree_leaves |-> 54839, default |-> 4872, snow |-> 44324, ice |-> 17899,
      mountain_rock |-> 29186, mud |-> 14749, gravel |-> 12030, moss |-> 55183,
      cobblestone |-> 64162, wood_planks |-> 47317, metal_rusted |-> 31086],
     \* PYTHONHASHSEED=156
     [grass |-> 14681, dirt |-> 22993, sand |-> 38391, stone |-> 16247,
      forest_floor |-> 56577, rock_lichen |-> 9609, rock_slate |-> 4174,
      plaster |-> 31879, roof_tile |-> 3820, cloth |-> 33585, tree_bark |-> 9609,
      tree_leaves |-> 12519, default |-> 17444, snow |-> 3609, ice |-> 1145,
      mountain_rock |-> 44795, mud |-> 60900, gravel |-> 21152, moss |-> 51368,
      cobblestone |-> 52743, wood_planks |-> 17738, metal_rusted |-> 57070],
     \* PYTHONHASHSEED=303
     [grass |-> 4705, dirt |-> 28458, sand |-> 28159, stone |-> 30011,
      forest_floor |-> 59505, rock_lichen |-> 55245, rock_slate |-> 37184,
      plaster |-> 21065, roof_tile |-> 65052, cloth |-> 10192, tree_bark |-> 33727,
      tree_leaves |-> 13868, default |-> 27478, snow |-> 8255, ice |-> 58870,
      mountain_rock |-> 43537, mud |-> 39779, gravel |-> 31972, moss |-> 27342,
      cobblestone |-> 41879, wood_planks |-> 52678, metal_rusted |-> 22937],
     \* PYTHONHASHSEED=360
     [grass |-> 54130, dirt |-> 50220, sand |-> 14821, stone |-> 58245,
      forest_floor |-> 29384, rock_lichen |-> 27648, rock_slate |-> 8863,
      plaster |-> 43804, roof_tile |-> 16624, cloth |-> 50291, tree_bark |-> 50220,
      tree_leaves |-> 16316, default |-> 46430, snow |-> 34326, ice |-> 15305,
      mountain_rock |-> 12776, mud |-> 59530, gravel |-> 26227, moss |-> 15599,
      cobblestone |-> 31954, wood_planks |-> 21674, metal_rusted |-> 46539]
    >>

\* hash(str) & 0xFFFF under the key of the process
StrHash(key, name) == HashTable[key + 1][name]

\* generate_mra_texture: hash & 0xFFFF, (hash + 1) & 0xFFFF, (hash + 2) & 0xFFFF
MraSeeds(h) ==
    <<h % (HashMask + 1), (h + 1) % (HashMask + 1), (h + 2) % (HashMask + 1)>>

\* multi_octave_noise: seed + o * 1000 for o in range(octaves)
OctaveSeeds(seed, octaves) == [o \in 1..octaves |-> seed + (o - 1) * 1000]

\* generate_texture_set: seed_base, seed_base + 100 (4 octaves), seed_base + 200 (3)
ExtSeeds(h) ==
    LET seed_base == h % (HashMask + 1)
    IN  OctaveSeeds(seed_base, 4) \o OctaveSeeds(seed_base + 100, 4)
        \o OctaveSeeds(seed_base + 200, 3)

MaterialSeeds(sc, h) == IF sc = "mra" THEN MraSeeds(h) ELSE ExtSeeds(h)

\* The lattices of the noise layers a material's texture is computed from.
TextureOf(seeds) == [i \in DOMAIN seeds |-> GridAlone(seeds[i])]


Run == {1, 2}

RunInit ==
    /\ script \in {"mra", "ext"}
    /\ hashKey = [r \in Run |-> 0]
    /\ rpc = [r \in Run |-> "boot"]
    /\ rdone = [r \in Run |-> 0]
    /\ rseeds = [r \in Run |-> <<>>]
    /\ rtex = [r \in Run |-> <<>>]
    /\ rdir = [r \in Run |-> "empty"]
    /\ rlog = [r \in Run |-> <<>>]

RunIdle ==
    /\ script = "mra"
    /\ hashKey = [r \in Run |-> 0]
    /\ rpc = [r \in Run |-> "off"]
    /\ rdone = [r \in Run |-> 0]
    /\ rseeds = [r \in Run |-> <<>>]
    /\ rtex = [r \in Run |-> <<>>]
    /\ rdir = [r \in Run |-> "empty"]
    /\ rlog = [r \in Run |-> <<>>]

\* The materials directory a run finds: without, or with, valid albedo and
\* normal files for every material.
Dirs == {"empty", "full"}

\* generate_texture_set: albedo computed and saved, normal computed and saved,
\* MRA computed and saved
TextureSetLog(name) ==
    <<<<"compute", name, "noise">>,
      <<"compute", name, "albedo">>, <<"write", name, "">>,
      <<"compute", name, "normal">>, <<"write", name, "_n">>,
      <<"compute", name, "mra">>, <<"write", name, "_mra">>>>

\* generate_mra_textures.main, the loop body: the MRA texture is generated and
\* saved; a default albedo and a flat normal follow where the file is missing
MraLog(name, dir) ==
    <<<<"compute", name, "mra">>, <<"write", name, "_mra">>>>
    \o (IF dir = "empty"
           THEN <<<<"compute", name, "albedo">>, <<"write", name, "">>,
                  <<"compute", name, "normal">>, <<"write", name, "_n">>>>
           ELSE <<>>)

MaterialLog(sc, name, dir) == IF sc = "mra" THEN MraLog(name, dir) ELSE TextureSetLog(name)

\* interpreter start of one process
RunBoot(r) ==
    /\ rpc[r] = "boot"
    /\ \E k \in 0..(NumHashKeys - 1) : hashKey' = [hashKey EXCEPT ![r] = k]
    /\ \E d \in Dirs : rdir' = [rdir EXCEPT ![r] = d]
    /\ rpc' = [rpc EXCEPT ![r] = "loop"]
    /\ UNCHANGED <<script, rdone, rseeds, rtex, rlog, notRun>>

\* one iteration of main's loop over the registry
RunMaterial(r) ==
    /\ rpc[r] = "loop"
    /\ LET order == ScriptOrder(script)
           name == order[rdone[r] + 1]
           seeds == MaterialSeeds(script, StrHash(hashKey[r], name))
       IN  /\ rseeds' = [rseeds EXCEPT ![r] = Append(@, seeds)]
           /\ rtex' = [rtex EXCEPT ![r] = Append(@, TextureOf(seeds))]
           /\ rlog' = [rlog EXCEPT ![r] = @ \o MaterialLog(script, name, rdir[r])]
           /\ rdone' = [rdone EXCEPT ![r] = @ + 1]
           /\ rpc' = [rpc EXCEPT ![r] =
                        IF rdone[r] + 1 = Len(order) THEN "done" ELSE "loop"]
    /\ UNCHANGED <<script, hashKey, rdir, notRun>>

RunNext == \E r \in Run : RunBoot(r) \/ RunMaterial(r)

(***************************************************************************)
(* Section C.  The parameter synthesizers, one pixel at a time.            *)
(* A value is a record [n, d]: the rational n / d.  Noise and height       *)
(* inputs are k / NoiseQ for k in 0..NoiseQ.                               *)
(***************************************************************************)
\* Bound: the number of steps the unit interval of an input is cut into.
NoiseQ == 4

Unit == 0..NoiseQ

\* clamp(val, lo, hi) = max(lo, min(hi, val)), lo and hi whole numbers
clampNoUpper(val, lo, hi) == [n |-> Max(lo * val.d, val.n), d |-> val.d]
clamp(val, lo, hi) == [n |-> Max(lo * val.d, Min(hi * val.d, val.n)), d |-> val.d]

\* np.clip(arr, lo, hi), lo and hi in hundredths (the denominator is a multiple of 100)
np_clip(val, lo, hi) ==
    [n |-> Max(lo * (val.d \div 100), Min(hi * (val.d \div 100), val.n)), d |-> val.d]

\* int(v * 255): truncation toward zero
IntByte(v) ==
    IF v.n >= 0 THEN (v.n * 255) \div v.d ELSE 0 - (((0 - v.n) * 255) \div v.d)

\* to_uint8: np.clip(arr, 0, 1), then (arr * 255.0 + 0.5).astype(np.uint8)
to_uint8(v) ==
    LET c == [n |-> Max(0, Min(v.d, v.n)), d |-> v.d]
    IN  (2 * 255 * c.n + c.d) \div (2 * c.d)

\* generate_mra_texture, the values of one pixel before clamp():
\* metallic_val + n * variation * 0.1, roughness_val + n * variation and
\* ao_val + (noise_hi - 0.5) * variation * 1.5
MraRaw(preset, noise_low, noise_med, noise_hi) ==
    LET nn == 2 * (50 * noise_low + 35 * noise_med + 15 * noise_hi) - 100 * NoiseQ
    IN  [m |-> [n |-> preset.metallic * 1000 * NoiseQ + nn * preset.variation,
                d |-> 100000 * NoiseQ],
         r |-> [n |-> preset.roughness * 100 * NoiseQ + nn * preset.variation,
                d |-> 10000 * NoiseQ],
         ao |-> [n |-> preset.ao_base * 4 * NoiseQ
                         + (2 * noise_hi - NoiseQ) * 3 * preset.variation,
                 d |-> 400 * NoiseQ]]

\* generate_mra_texture, the body of the pixel loop
MraPixel(preset, noise_low, noise_med, noise_hi) ==
    LET raw == MraRaw(preset, noise_low, noise_med, noise_hi)
        m == clamp(raw.m, 0, 1)
        r == clamp(raw.r, 0, 1)
        ao == clamp(raw.ao, 0, 1)
    IN  [m |-> m, r |-> r, ao |-> ao,
         px |-> <<IntByte(m), IntByte(r), IntByte(ao), 255>>]

\* generate_texture_set, the values of one MRA pixel before clamp():
\* m_base + n * var * 0.2, r_base + n * var and ao_base + n2 * var * 1.2
ExtRaw(preset, noise2, noise3) ==
    LET nn == 2 * noise2 - NoiseQ
        n2 == 2 * noise3 - NoiseQ
    IN  [m |-> [n |-> 5 * preset.metallic * NoiseQ + nn * preset.variation,
                d |-> 500 * NoiseQ],
         r |-> [n |-> preset.roughness * NoiseQ + nn * preset.variation,
                d |-> 100 * NoiseQ],
         ao |-> [n |-> 5 * preset.ao_base * NoiseQ + 6 * n2 * preset.variation,
                 d |-> 500 * NoiseQ]]

\* generate_texture_set, the body of the MRA pixel loop
ExtPixel(preset, noise2, noise3) ==
    LET raw == ExtRaw(preset, noise2, noise3)
        m == clamp(raw.m, 0, 1)
        r == clamp(raw.r, 0, 1)
        ao == clamp(raw.ao, 0, 1)
    IN  [m |-> m, r |-> r, ao |-> ao,
         px |-> <<IntByte(m), IntByte(r), IntByte(ao), 255>>]

\* The roughness and AO lines of the four constructors of the texture-pack
\* generator, in hundredths: roughness = clip(r0 + r1 * (1 - height) - rd * darken,
\* rlo, rhi), ao = clip(a0 + a1 * gaussian_blur(1 - height, 1), 0, 1).
MATERIALS ==
    [Stone_Terrain_Rock |-> [r0 |-> 78, r1 |-> 18, rd |-> 0,  rlo |-> 60, rhi |-> 97,
                             a0 |-> 62, a1 |-> 38],
     Dirt_Mud           |-> [r0 |-> 75, r1 |-> 20, rd |-> 25, rlo |-> 20, rhi |-> 95,
                             a0 |-> 60, a1 |-> 40],
     Sand_Desert        |-> [r0 |-> 85, r1 |-> 10, rd |-> 0,  rlo |-> 75, rhi |-> 98,
                             a0 |-> 70, a1 |-> 30],
     Moss_Ground        |-> [r0 |-> 75, r1 |-> 20, rd |-> 0,  rlo |-> 60, rhi |-> 95,
                             a0 |-> 65, a1 |-> 35]]

\* One pixel of a constructor: height, the blurred inverse height and the
\* resampled puddle mask (dirt_mud) at that pixel.
PbrPixel(c, height, blurred, darken) ==
    LET roughness == np_clip([n |-> c.r0 * NoiseQ + c.r1 * (NoiseQ - height) - c.rd * darken,
                              d |-> 100 * NoiseQ], c.rlo, c.rhi)
        ao == np_clip([n |-> c.a0 * NoiseQ + c.a1 * blurred, d |-> 100 * NoiseQ], 0, 100)
        metallic == [n |-> 0, d |-> 100 * NoiseQ]
    IN  [m |-> metallic, r |-> roughness, ao |-> ao,
         px |-> <<to_uint8(metallic), to_uint8(roughness), to_uint8(ao), 255>>]

SynRegistry(s) ==
    IF s = "mra" THEN MATERIAL_PRESETS
    ELSE IF s = "ext" THEN EXTENDED_MATERIALS ELSE MATERIALS

NoOut == [m |-> [n |-> 0, d |-> 1], r |-> [n |-> 0, d |-> 1], ao |-> [n |-> 0, d |-> 1],
          px |-> <<>>]

SynInit ==
    /\ synPc = "in"
    /\ synScript \in {"mra", "ext", "pbr"}
    /\ synMat \in DOMAIN SynRegistry(synScript)
    /\ synIn \in [1..3 -> Unit]
    /\ synOut = NoOut
    /\ synFiles = <<>>

SynIdle ==
    /\ synPc = "off"
    /\ synScript = "mra"
    /\ synMat = "default"
    /\ synIn = [i \in 1..3 |-> 0]
    /\ synOut = NoOut
    /\ synFiles = <<>>

SynMra ==
    /\ synPc = "in" /\ synScript = "mra"
    /\ synOut' = MraPixel(MATERIAL_PRESETS[synMat], synIn[1], synIn[2], synIn[3])
    /\ synPc' = "out"
    /\ UNCHANGED <<synScript, synMat, synIn, synFiles, notSyn>>

SynExt ==
    /\ synPc = "in" /\ synScript = "ext"
    /\ synOut' = ExtPixel(EXTENDED_MATERIALS[synMat], synIn[1], synIn[2])
    /\ synPc' = "out"
    /\ UNCHANGED <<synScript, synMat, synIn, synFiles, notSyn>>

SynPbr ==
    /\ synPc = "in" /\ synScript = "pbr"
    /\ synOut' = PbrPixel(MATERIALS[synMat], synIn[1], synIn[2], synIn[3])
    /\ synPc' = "out"
    /\ UNCHANGED <<synScript, synMat, synIn, synFiles, notSyn>>

\* orm = np.dstack([ao, roughness, metallic])
dstack_mra(maps) == <<maps.m, maps.r, maps.ao>>
dstack_orm(maps) == <<maps.ao, maps.r, maps.m>>

\* save_gray / save_rgb: every channel of the array goes through to_uint8
save_gray(arr) == <<to_uint8(arr)>>
save_rgb(arr) == [i \in 1..Len(arr) |-> to_uint8(arr[i])]

\* save_material, the observed pixel of the roughness, metallic and AO files
\* and of the packed ORM file
save_material(maps, pack_orm) ==
    [k \in {"Roughness", "Metallic", "AO"} |->
        save_gray(IF k = "Roughness" THEN maps.r ELSE IF k = "Metallic" THEN maps.m
                  ELSE maps.ao)]
    @@ (IF pack_orm THEN [k \in {"ORM"} |-> save_rgb(dstack_orm(maps))] ELSE <<>>)

\* main: the maps of the constructor are handed to save_material
SynSave ==
    /\ synPc = "out" /\ synScript = "pbr"
    /\ \E pack \in BOOLEAN : synFiles' = save_material(synOut, pack)
    /\ synPc' = "saved"
    /\ UNCHANGED <<synScript, synMat, synIn, synOut, notSyn>>

\* mra_img.save(materials_dir / "{material_name}_mra.png") and
\* mra.save(out_dir / "{name}_mra.png"): the RGBA pixel as it was set
SynSaveMra ==
    /\ synPc = "out" /\ synScript \in {"mra", "ext"}
    /\ synFiles' = [k \in {"_mra"} |-> synOut.px]
    /\ synPc' = "saved"
    /\ UNCHANGED <<synScript, synMat, synIn, synOut, notSyn>>

\* import_to_assets, "MRA from ORM", at the resolution of the source (the
\* resize then returns a copy): the ORM image, converted to RGB, is saved as
\* {out_name}_mra.png
SynImport ==
    /\ synPc = "saved" /\ synScript = "pbr"
    /\ "ORM" \in DOMAIN synFiles
    /\ synFiles' = synFiles @@ [k \in {"_mra"} |-> synFiles["ORM"]]
    /\ synPc' = "imported"
    /\ UNCHANGED <<synScript, synMat, synIn, synOut, notSyn>>

SynNext == SynMra \/ SynExt \/ SynPbr \/ SynSave \/ SynSaveMra \/ SynImport

(***************************************************************************)
(* Section D.  tools/pbr_gen: generate_pbr_textures.main, then             *)
(* import_to_assets.main on the generator's output directory.              *)
(* A file is [res, data, flips]: its resolution, the channel bytes of the  *)
(* pixel under observation, and how often its green channel was inverted.  *)
(***************************************************************************)
\* Bounds: the longest explicit --materials list, the largest --res, and the
\* number of steps the stored normal y of the observed pixel is cut into.
MaxMats == 2
MaxRes == 3
NormQ == 2

Registered == DOMAIN MATERIALS
\* list(MATERIALS.keys())
AllMaterials == <<"Stone_Terrain_Rock", "Dirt_Mud", "Sand_Desert", "Moss_Ground">>
Unregistered == "Granite"
RequestNames == Registered \cup {Unregistered}
MaterialLists ==
    {AllMaterials} \cup UNION {[1..n -> RequestNames] : n \in 1..MaxMats}

ResSet == 0..MaxRes
Conventions == {"opengl", "directx"}
Qualities == {"low", "med", "high"}

\* import_to_assets.MAP and its iteration order
MAP ==
    [grass |-> "Moss_Ground", forest_floor |-> "Moss_Ground", dirt |-> "Dirt_Mud",
     sand |-> "Sand_Desert", stone |-> "Stone_Terrain_Rock"]
ImportOrder == <<"grass", "forest_floor", "dirt", "sand", "stone">>

Put(f, k, v) == (k :> v) @@ f

RECURSIVE PutAll(_, _, _, _)
PutAll(f, name, kinds, content) ==
    IF kinds = <<>> THEN f
    ELSE PutAll(Put(f, <<name, Head(kinds)>>, content[Head(kinds)]), name, Tail(kinds), content)

\* height_to_normal, the stored y component of one pixel: ny * 0.5 + 0.5 with
\* ny negated unless the convention is "opengl".  s / NormQ is the value the
\* OpenGL convention stores.
height_to_normal(s, convention) ==
    LET ny == 2 * s - NormQ
        signed == IF convention = "opengl" THEN ny ELSE 0 - ny
    IN  [n |-> signed + NormQ, d |-> 2 * NormQ]

\* The events of one constructor call (stone_terrain_rock and the others):
\* shaping at the working resolution, resample, the detail pass, the maps.
ConstructorLog(name, quality) ==
    <<<<"compute", name, "h0">>, <<"resample", name, "height">>>>
    \o (IF quality # "low" THEN <<<<"compute", name, "detail">>>> ELSE <<>>)
    \o <<<<"compute", name, "maps">>>>

SavedKinds(pack_orm) ==
    <<"BaseColor", "Normal", "Roughness", "Metallic", "Height", "AO">>
    \o (IF pack_orm THEN <<"ORM">> ELSE <<>>)

\* save_material: the directory, then the files in the order they are written
SaveLog(name, pack_orm) ==
    <<<<"mkdir", name, "dir">>>>
    \o [i \in 1..Len(SavedKinds(pack_orm)) |-> <<"write", name, SavedKinds(pack_orm)[i]>>]

\* What the constructor hands to save_material, per file kind.
MaterialMaps(res, convention) ==
    [k \in {"BaseColor", "Roughness", "Metallic", "Height", "AO", "ORM"} |->
        [res |-> res, data |-> <<>>, flips |-> 0]]
    @@ [k \in {"Normal"} |->
        [res |-> res,
         data |-> <<to_uint8(height_to_normal(nyS, convention))>>,
         flips |-> IF convention = "opengl" THEN 0 ELSE 1]]

GenInit ==
    /\ gargs \in [res : ResSet, materials : MaterialLists, normal_conv : Conventions,
                  quality : Qualities, pack_orm : BOOLEAN]
    /\ nyS \in 0..NormQ
    /\ gpc = "start"
    /\ gi = 0
    /\ gerr = "none"
    /\ gdirs = {}
    /\ gfs = <<>>
    /\ glog = <<>>

\* What the destination directory holds before the import: an emissive file
\* made earlier for the first mapped name, and no file for the other names.
ExistingEmissive == [res |-> 1, data |-> <<200>>, flips |-> 0]
DstBefore == (<<"grass", "_e">> :> ExistingEmissive)

ImpUnstarted ==
    /\ iargs = [res |-> 1, normal_conv |-> "opengl"]
    /\ idrift = 0
    /\ ipc = "idle"
    /\ ii = 0
    /\ ierr = "none"
    /\ idirs = {}
    /\ ifs = DstBefore

PipeInit == GenInit /\ ImpUnstarted

PipeIdle ==
    /\ gargs = [res |-> 1, materials |-> AllMaterials, normal_conv |-> "opengl",
                quality |-> "med", pack_orm |-> FALSE]
    /\ nyS = 0
    /\ gpc = "off"
    /\ gi = 0
    /\ gerr = "none"
    /\ gdirs = {}
    /\ gfs = <<>>
    /\ glog = <<>>
    /\ ImpUnstarted

\* main up to the loop: os.makedirs(args.out, exist_ok=True)
GenStart ==
    /\ gpc = "start"
    /\ gdirs' = gdirs \cup {"."}
    /\ gpc' = "loop"
    /\ UNCHANGED <<gargs, nyS, gi, gerr, gfs, glog, impVars, notPipe>>

\* the name of the current iteration of main's loop
GenName == gargs.materials[gi + 1]

\* fn = MATERIALS[name] for a name that is no key: KeyError leaves main
GenKeyErrorAfterMkdir ==
    /\ gpc = "loop"
    /\ GenName \notin Registered
    /\ gpc' = "error"
    /\ gerr' = "KeyError"
    /\ gdirs' = gdirs \cup {GenName}
    /\ UNCHANGED <<gargs, nyS, gi, gfs, glog, impVars, notPipe>>

GenKeyError ==
    /\ gpc = "loop"
    /\ GenName \notin Registered
    /\ gpc' = "error"
    /\ gerr' = "KeyError"
    /\ UNCHANGED <<gargs, nyS, gi, gdirs, gfs, glog, impVars, notPipe>>

\* the constructor with a size Image.resize refuses (height and width must
\* be > 0): the working-resolution fields are computed, then ValueError
GenResizeError ==
    /\ gpc = "loop"
    /\ GenName \in Registered
    /\ gargs.res <= 0
    /\ glog' = glog \o <<<<"compute", GenName, "h0">>>>
    /\ gpc' = "error"
    /\ gerr' = "ValueError"
    /\ UNCHANGED <<gargs, nyS, gi, gdirs, gfs, impVars, notPipe>>

\* the constructor, then save_material
GenSave ==
    /\ gpc = "loop"
    /\ GenName \in Registered
    /\ gargs.res > 0
    /\ glog' = glog \o ConstructorLog(GenName, gargs.quality)
                    \o SaveLog(GenName, gargs.pack_orm)
    /\ gdirs' = gdirs \cup {GenName}
    /\ gfs' = PutAll(gfs, GenName, SavedKinds(gargs.pack_orm),
                     MaterialMaps(gargs.res, gargs.normal_conv))
    /\ gi' = gi + 1
    /\ gpc' = IF gi + 1 = Len(gargs.materials) THEN "done" ELSE "loop"
    /\ UNCHANGED <<gargs, nyS, gerr, impVars, notPipe>>

\* load_and_resample: Image.resize returns a copy when the size is unchanged.
\* Otherwise the filtered pixel depends on its neighbourhood: it is the source
\* pixel moved by `drift`, the same for every image of the run.
Resampled(file, res, drift) ==
    IF file.res = res \/ file.data = <<>>
        THEN [file EXCEPT !.res = res]
        ELSE [file EXCEPT !.res = res,
                          !.data = <<Max(0, Min(255, file.data[1] + drift))>>]

\* Image.eval(g, lambda v: 255 - v)
FlipGreen(file) ==
    [res |-> file.res, data |-> <<255 - file.data[1]>>, flips |-> file.flips + 1]

\* write_black
BlackFile(res) == [res |-> res, data |-> <<0>>, flips |-> 0]

SrcKinds == {"BaseColor", "Normal", "ORM"}

\* import_to_assets.main up to the loop, on the output of a finished generator
\* run: os.makedirs(args.dst, exist_ok=True) keeps what the directory holds
ImpStart ==
    /\ gpc \in {"done", "error"}
    /\ ipc = "idle"
    /\ iargs' \in [res : ResSet, normal_conv : Conventions]
    /\ idrift' \in IF iargs'.res = gargs.res \/ iargs'.res <= 0
                     THEN {0} ELSE {0 - 1, 0, 1}
    /\ idirs' = idirs \cup {"."}
    /\ ipc' = "loop"
    /\ UNCHANGED <<ii, ierr, ifs, genVars, notPipe>>

\* the pair of the current iteration of the importer's loop over mapping.items()
ImpOut == ImportOrder[ii + 1]
ImpSrc == MAP[ImpOut]

\* raise SystemExit("Missing maps for ...")
ImpMissing ==
    /\ ipc = "loop"
    /\ \E k \in SrcKinds : <<ImpSrc, k>> \notin DOMAIN gfs
    /\ ipc' = "exit"
    /\ ierr' = "Missing maps"
    /\ UNCHANGED <<iargs, idrift, ii, idirs, ifs, genVars, notPipe>>

\* the first load_and_resample with a size Image.resize refuses
ImpResizeError ==
    /\ ipc = "loop"
    /\ \A k \in SrcKinds : <<ImpSrc, k>> \in DOMAIN gfs
    /\ iargs.res <= 0
    /\ ipc' = "error"
    /\ ierr' = "ValueError"
    /\ UNCHANGED <<iargs, idrift, ii, idirs, ifs, genVars, notPipe>>

\* albedo, normal (green inverted when directx is requested), MRA from ORM,
\* black emissive
ImpWrite ==
    /\ ipc = "loop"
    /\ \A k \in SrcKinds : <<ImpSrc, k>> \in DOMAIN gfs
    /\ iargs.res > 0
    /\ LET base == Resampled(gfs[<<ImpSrc, "BaseColor">>], iargs.res, idrift)
           norm == Resampled(gfs[<<ImpSrc, "Normal">>], iargs.res, idrift)
           orm == Resampled(gfs[<<ImpSrc, "ORM">>], iargs.res, idrift)
       IN ifs' = Put(Put(Put(Put(ifs,
                    <<ImpOut, "">>, base),
                    <<ImpOut, "_n">>,
                        IF iargs.normal_conv = "directx" THEN FlipGreen(norm) ELSE norm),
                    <<ImpOut, "_mra">>, orm),
                    <<ImpOut, "_e">>, BlackFile(iargs.res))
    /\ ii' = ii + 1
    /\ ipc' = IF ii + 1 = Len(ImportOrder) THEN "done" ELSE "loop"
    /\ UNCHANGED <<iargs, idrift, ierr, idirs, genVars, notPipe>>

PipeNext ==
    \/ GenStart \/ GenKeyError \/ GenResizeError \/ GenSave
    \/ ImpStart \/ ImpMissing \/ ImpResizeError \/ ImpWrite

(***************************************************************************)
(* Section E.  tools/scripts/migrate_awtex2_to_ktx2.py: main over the      *)
(* sorted .ktx2 files of the assets directory.  File i has the format      *)
(* mfmt[i] on disk and the metadata mmeta[i] beside it.                    *)
(***************************************************************************)
\* Bound: the number of .ktx2 files in the assets directory.
MaxFiles == 2

\* What check_magic_bytes can return: 'KTX2', 'AWTEX2', 'UNKNOWN', 'ERROR: ...'
Formats == {"KTX2", "AWTEX2", "UNKNOWN", "UNREADABLE"}
\* The .meta.json beside a file: absent; not JSON; no (or an empty) source_path;
\* a source_path that is no string; a source_path whose file is missing; good.
Metas == {"none", "corrupt", "nokey", "badtype", "missing", "ok"}
\* How the bake subprocess can end.
BakeResults == {"ktx2", "rc0_not_ktx2", "nonzero", "timeout", "oserror"}

\* find_source_from_meta: None unless the metadata holds a source_path
NoSourcePath(meta) == meta \in {"none", "corrupt", "nokey"}

MigrationStats == [total |-> 0, already_ktx2 |-> 0, migrated |-> 0, failed |-> 0,
                   errors |-> <<>>]

\* main's tally of one result: DRY_RUN has no branch
Tally(st, result, i) ==
    IF result = "SUCCESS" THEN [st EXCEPT !.migrated = @ + 1]
    ELSE IF result = "SKIP" THEN [st EXCEPT !.already_ktx2 = @ + 1]
    ELSE IF result = "ERROR" THEN [st EXCEPT !.failed = @ + 1, !.errors = Append(@, i)]
    ELSE st

MigInit ==
    /\ margs \in [dry_run : BOOLEAN, no_backup : BOOLEAN]
    /\ \E n \in 0..MaxFiles : mfmt \in [1..n -> Formats] /\ mmeta \in [1..n -> Metas]
    /\ mpc = "start"
    /\ mi = 0
    /\ mstatus = <<>>
    /\ stats = MigrationStats
    /\ mbackup = <<>>
    /\ mbakes = <<>>
    /\ mexit = 0
    /\ mrun = "first"
    /\ mprev = <<>>

MigIdle ==
    /\ margs = [dry_run |-> FALSE, no_backup |-> FALSE]
    /\ mfmt = <<>>
    /\ mmeta = <<>>
    /\ mpc = "off"
    /\ mi = 0
    /\ mstatus = <<>>
    /\ stats = MigrationStats
    /\ mbackup = <<>>
    /\ mbakes = <<>>
    /\ mexit = 0
    /\ mrun = "first"
    /\ mprev = <<>>

\* main up to the loop: no .ktx2 file ends the run with exit status 1
MigStart ==
    /\ mpc = "start"
    /\ IF Len(mfmt) = 0
         THEN mpc' = "exit" /\ mexit' = 1 /\ UNCHANGED stats
         ELSE mpc' = "loop" /\ stats' = [stats EXCEPT !.total = Len(mfmt)] /\ UNCHANGED mexit
    /\ UNCHANGED <<margs, mrun, mprev, mfmt, mmeta, mi, mstatus, mbackup, mbakes, notMig>>

\* The current file of main's loop.
MigFile == mi + 1
MigLooping == mpc = "loop" /\ mi < Len(mfmt)

\* migrate_asset returns `result`; main tallies it and goes to the next file.
MigReturn(result) ==
    /\ mstatus' = Append(mstatus, result)
    /\ stats' = Tally(stats, result, MigFile)
    /\ mi' = mi + 1

\* format KTX2: 'SKIP'
MigSkip ==
    /\ MigLooping
    /\ mfmt[MigFile] = "KTX2"
    /\ MigReturn("SKIP")
    /\ UNCHANGED <<margs, mrun, mprev, mfmt, mmeta, mpc, mbackup, mbakes, mexit, notMig>>

\* unknown or unreadable format: 'ERROR'
MigUnknown ==
    /\ MigLooping
    /\ mfmt[MigFile] \notin {"KTX2", "AWTEX2"}
    /\ MigReturn("ERROR")
    /\ UNCHANGED <<margs, mrun, mprev, mfmt, mmeta, mpc, mbackup, mbakes, mexit, notMig>>

\* no source_path in the metadata, or the source file does not exist: 'ERROR'
MigNoSource ==
    /\ MigLooping
    /\ mfmt[MigFile] = "AWTEX2"
    /\ NoSourcePath(mmeta[MigFile]) \/ mmeta[MigFile] = "missing"
    /\ MigReturn("ERROR")
    /\ UNCHANGED <<margs, mrun, mprev, mfmt, mmeta, mpc, mbackup, mbakes, mexit, notMig>>

\* Path(source_path) on a source_path that is no string: TypeError, outside
\* every try block, leaves migrate_asset and main
MigBadSourceType ==
    /\ MigLooping
    /\ mfmt[MigFile] = "AWTEX2"
    /\ mmeta[MigFile] = "badtype"
    /\ mpc' = "crash"
    /\ mexit' = 1
    /\ UNCHANGED <<margs, mrun, mprev, mfmt, mmeta, mi, mstatus, stats, mbackup, mbakes, notMig>>

\* dry run: 'DRY_RUN' before the backup and the bake
MigDryRun ==
    /\ MigLooping
    /\ mfmt[MigFile] = "AWTEX2"
    /\ mmeta[MigFile] = "ok"
    /\ margs.dry_run
    /\ MigReturn("DRY_RUN")
    /\ UNCHANGED <<margs, mrun, mprev, mfmt, mmeta, mpc, mbackup, mbakes, mexit, notMig>>

\* backup_file raises (mkdir or shutil.copy2 fails): the call is outside the
\* try block, so the exception leaves migrate_asset and main.  The file itself
\* may or may not have been copied before the failure.
MigBackupFails ==
    /\ MigLooping
    /\ mfmt[MigFile] = "AWTEX2"
    /\ mmeta[MigFile] = "ok"
    /\ ~margs.dry_run /\ ~margs.no_backup
    /\ \/ UNCHANGED mbackup
       \/ mbackup' = Put(mbackup, MigFile, mfmt[MigFile])
    /\ mpc' = "crash"
    /\ mexit' = 1
    /\ UNCHANGED <<margs, mrun, mprev, mfmt, mmeta, mi, mstatus, stats, mbakes, notMig>>

\* backup_file: shutil.copy2(file_path, backup_dir / file_path.name), the
\* file with the content it has at that moment
backup_file_skipped(backups, file, content) == backups
backup_file(backups, file, content) == Put(backups, file, content)

\* "Backup original": the backup when a backup directory is given; the bake
\* command follows
MigBackup ==
    /\ MigLooping
    /\ mfmt[MigFile] = "AWTEX2"
    /\ mmeta[MigFile] = "ok"
    /\ ~margs.dry_run
    /\ mbackup' = IF margs.no_backup THEN mbackup
                  ELSE backup_file(mbackup, MigFile, mfmt[MigFile])
    /\ mpc' = "bake"
    /\ UNCHANGED <<margs, mrun, mprev, mfmt, mmeta, mi, mstatus, stats, mbakes, mexit, notMig>>

\* the bake subprocess and the check of the magic bytes: 'SUCCESS' only for
\* return code 0 and a KTX2 file
MigBake ==
    /\ mpc = "bake"
    /\ mbakes' = Append(mbakes, MigFile)
    /\ \E res \in BakeResults :
          /\ IF res = "ktx2" THEN mfmt' = [mfmt EXCEPT ![MigFile] = "KTX2"]
             ELSE \E f \in {"AWTEX2", "UNKNOWN"} : mfmt' = [mfmt EXCEPT ![MigFile] = f]
          /\ MigReturn(IF res = "ktx2" THEN "SUCCESS" ELSE "ERROR")
    /\ mpc' = "loop"
    /\ UNCHANGED <<margs, mrun, mprev, mmeta, mbackup, mexit, notMig>>

\* the summary report and the exit status
MigSummary ==
    /\ mpc = "loop"
    /\ mi = Len(mfmt)
    /\ mpc' = "summary"
    /\ mexit' = IF margs.dry_run \/ stats.failed = 0 THEN 0 ELSE 1
    /\ UNCHANGED <<margs, mrun, mprev, mfmt, mmeta, mi, mstatus, stats, mbackup, mbakes, notMig>>

\* the script is started again over the same directory: the files, their
\* metadata and the backup directory are as the earlier run left them
MigRerun ==
    /\ mrun = "first"
    /\ mpc \in {"summary", "crash", "exit"}
    /\ mrun' = "later"
    /\ mprev' = mstatus
    /\ margs' \in [dry_run : BOOLEAN, no_backup : BOOLEAN]
    /\ mpc' = "start"
    /\ mi' = 0
    /\ mstatus' = <<>>
    /\ stats' = MigrationStats
    /\ mbakes' = <<>>
    /\ mexit' = 0
    /\ UNCHANGED <<mfmt, mmeta, mbackup, notMig>>

MigNext ==
    \/ MigStart \/ MigSkip \/ MigUnknown \/ MigNoSource \/ MigBadSourceType
    \/ MigDryRun \/ MigBackupFails \/ MigBackup \/ MigBake \/ MigSummary \/ MigRerun

(***************************************************************************)
(* Section F.  The normal field of a height field: height_to_normal of     *)
(* tools/pbr_gen and the normal loop of generate_texture_set.              *)
(* A height is 0 or 1.  A normal pixel is the integer vector (nx, ny, nz)  *)
(* before the division by its length l; the stored components are          *)
(* nx / l * 0.5 + 0.5, ny / l * 0.5 + 0.5 and nz / l * 0.5 + 0.5, so that  *)
(* 1 - (ny / l * 0.5 + 0.5) is the stored y of the vector (nx, -ny, nz).   *)
(***************************************************************************)
\* Bounds: the width and height of the field, and the number of its cells
\* that are raised (height 1) above the rest (height 0).
FieldW == 3
FieldH == 3
MaxRaised == 2

Heights == {0, 1}
Cells == (0..(FieldH - 1)) \X (0..(FieldW - 1))
HeightFields ==
    {[y \in 0..(FieldH - 1) |-> [x \in 0..(FieldW - 1) |->
         IF <<y, x>> \in raised THEN 1 ELSE 0]] :
       raised \in {c \in SUBSET Cells : Cardinality(c) <= MaxRaised}}

\* The strength each caller passes, as a fraction n / d (2.8 = 14 / 5):
\* the four constructors, and `strength = 2.0` of generate_texture_set.
Strength ==
    [Stone_Terrain_Rock |-> [n |-> 5, d |-> 1], Dirt_Mud |-> [n |-> 3, d |-> 1],
     Sand_Desert |-> [n |-> 14, d |-> 5], Moss_Ground |-> [n |-> 3, d |-> 1],
     generate_texture_set |-> [n |-> 2, d |-> 1]]

\* np.roll(a, shift, axis) without wraparound: the edge value is repeated
np_roll_clamped(a, shift, axis) ==
    IF axis = 1
        THEN [y \in 0..(FieldH - 1) |-> [x \in 0..(FieldW - 1) |->
                 a[y][Max(0, Min(FieldW - 1, x - shift))]]]
        ELSE [y \in 0..(FieldH - 1) |-> [x \in 0..(FieldW - 1) |->
                 a[Max(0, Min(FieldH - 1, y - shift))][x]]]

\* np.roll(a, shift, axis): the element at index i moves to (i + shift) mod n
np_roll(a, shift, axis) ==
    IF axis = 1
        THEN [y \in 0..(FieldH - 1) |-> [x \in 0..(FieldW - 1) |->
                 a[y][(x - shift) % FieldW]]]
        ELSE [y \in 0..(FieldH - 1) |-> [x \in 0..(FieldW - 1) |->
                 a[(y - shift) % FieldH][x]]]

\* ny = ny if convention == "opengl" else -ny
convention_sign_kept(ny, convention) == ny
convention_sign(ny, convention) == IF convention = "opengl" THEN ny ELSE 0 - ny

\* height_to_normal on a whole field
height_to_normal_field(h, strength, convention) ==
    LET east == np_roll(h, 0 - 1, 1)
        west == np_roll(h, 1, 1)
        south == np_roll(h, 0 - 1, 0)
        north == np_roll(h, 1, 0)
    IN  [y \in 0..(FieldH - 1) |-> [x \in 0..(FieldW - 1) |->
            LET dx == east[y][x] - west[y][x]
                dy == south[y][x] - north[y][x]
            IN  [nx |-> 0 - dx * strength.n,
                 ny |-> convention_sign(0 - dy * strength.n, convention),
                 nz |-> strength.d]]]

\* generate_texture_set, the normal loop: normalize(-dx, -dy, 1)
texture_set_normal(noise1, strength) ==
    [y \in 0..(FieldH - 1) |-> [x \in 0..(FieldW - 1) |->
        LET x0 == noise1[y][(x - 1) % FieldW]
            x1 == noise1[y][(x + 1) % FieldW]
            y0 == noise1[(y - 1) % FieldH][x]
            y1 == noise1[(y + 1) % FieldH][x]
            dx == (x1 - x0) * strength.n
            dy == (y1 - y0) * strength.n
        IN  [nx |-> 0 - dx, ny |-> 0 - dy, nz |-> strength.d]]]

\* The normal field the caller `src` derives from h.
NormalOf(src, h, convention) ==
    IF src = "generate_texture_set"
        THEN texture_set_normal(h, Strength[src])
        ELSE height_to_normal_field(h, Strength[src], convention)

NormInit ==
    /\ nh \in HeightFields
    /\ npc = "height"
    /\ nsrc = "none"
    /\ nconv = "opengl"
    /\ nfield = <<>>

NormIdle ==
    /\ nh = [y \in 0..(FieldH - 1) |-> [x \in 0..(FieldW - 1) |-> 0]]
    /\ npc = "off"
    /\ nsrc = "none"
    /\ nconv = "opengl"
    /\ nfield = <<>>

\* a constructor of the texture-pack generator: height_to_normal(height,
\* strength=..., convention=normal_conv)
NormPbr ==
    /\ npc = "height"
    /\ \E name \in Registered, convention \in Conventions :
          /\ nsrc' = name
          /\ nconv' = convention
          /\ nfield' = height_to_normal_field(nh, Strength[name], convention)
    /\ npc' = "normal"
    /\ UNCHANGED <<nh, notNorm>>

\* generate_texture_set: the normal map from noise1
NormExt ==
    /\ npc = "height"
    /\ nsrc' = "generate_texture_set"
    /\ nfield' = texture_set_normal(nh, Strength["generate_texture_set"])
    /\ npc' = "normal"
    /\ UNCHANGED <<nh, nconv, notNorm>>

NormNext == NormPbr \/ NormExt

(***************************************************************************)
(* Section G.  The conversion of a field value to a byte at the three      *)
(* places of tools/pbr_gen that build an 8-bit image from a float array:   *)
(* save_gray / save_rgb / save_rgba, gaussian_blur and resample.           *)
(* The value is qv.n / qv.d and may lie outside [0,1].                     *)
(***************************************************************************)
\* Bound: the number of steps the unit interval is cut into; values range
\* from -1 to 2.
QuantD == 20

QuantValues == {[n |-> k, d |-> QuantD] : k \in (0 - QuantD)..(2 * QuantD)}
QuantCallers == {"save", "gaussian_blur", "resample"}

QuantInit ==
    /\ qv \in QuantValues
    /\ qpc = "float"
    /\ qfn = "none"
    /\ qbyte = 0
    /\ qerr = "none"

QuantIdle ==
    /\ qv = [n |-> 0, d |-> QuantD]
    /\ qpc = "off"
    /\ qfn = "none"
    /\ qbyte = 0
    /\ qerr = "none"

\* Image.fromarray(to_uint8(arr), mode=...): no check of the range, no exception
Quantize(caller) ==
    /\ qpc = "float"
    /\ qfn' = caller
    /\ qbyte' = to_uint8(qv)
    /\ qpc' = "byte"
    /\ UNCHANGED <<qv, qerr, notQuant>>

\* save_gray / save_rgb / save_rgba write the image; gaussian_blur hands it
\* to the filter, resample to Image.resize
QuantNext == \E caller \in QuantCallers : Quantize(caller)

(***************************************************************************)
(* Section H.  multi_octave_noise (generate_extended_materials.py), seen   *)
(* at one pixel: the loop over the octaves and the final division.         *)
(* Amplitudes are numerators over AmpDen, layer values numerators over     *)
(* NoiseQ, the running sum a numerator over NoiseQ * AmpDen.               *)
(***************************************************************************)

\* Largest octave count of a call.
MaxOctaves == 6

AmpDen == 2 ^ MaxOctaves

\* scale=max(8, 128 / freq); freq is a power of two, so 128 / freq is whole
\* up to freq = 128 and below 1 (hence replaced by 8) beyond it
LayerScale(freq) == Max(8, 128 \div freq)

\* seed=seed + o * 1000, as an offset from the seed of the call
LayerSeed(o) == o * 1000

OctInit ==
    /\ moOctaves \in 1..MaxOctaves
    /\ moPc = "loop"
    /\ moO = 0
    /\ moAmp = AmpDen
    /\ moFreq = 1
    /\ moTotal = 0
    /\ moResult = 0
    /\ moLayers = <<>>

OctIdle ==
    /\ moOctaves = 1
    /\ moPc = "off"
    /\ moO = 0
    /\ moAmp = AmpDen
    /\ moFreq = 1
    /\ moTotal = 0
    /\ moResult = 0
    /\ moLayers = <<>>

\* one pass of "for o in range(octaves)": n is the value of the layer at the pixel
OctLayer ==
    /\ moPc = "loop"
    /\ moO < moOctaves
    /\ \E n \in Unit :
          /\ moLayers' = Append(moLayers, [scale |-> LayerScale(moFreq), seed |-> LayerSeed(moO),
                                           amp |-> moAmp, n |-> n])
          /\ moResult' = moResult + n * moAmp
    /\ moTotal' = moTotal + moAmp
    /\ moAmp' = moAmp \div 2
    /\ moFreq' = moFreq * 2
    /\ moO' = moO + 1
    /\ UNCHANGED <<moOctaves, moPc, notOct>>

\* result[y][x] /= total_amp, and the return: moResult becomes the rational
\* n / d
OctNormalize ==
    /\ moPc = "loop"
    /\ moO = moOctaves
    /\ moResult' = [n |-> moResult, d |-> NoiseQ * moTotal]
    /\ moPc' = "done"
    /\ UNCHANGED <<moOctaves, moO, moAmp, moFreq, moTotal, moLayers, notOct>>

OctNext == OctLayer \/ OctNormalize

(***************************************************************************)
(* Specifications                                                          *)
(***************************************************************************)
InitNoise ==
    NoiseInit /\ RunIdle /\ SynIdle /\ PipeIdle /\ MigIdle /\ NormIdle /\ QuantIdle /\ OctIdle
InitRuns ==
    RunInit /\ NoiseIdle /\ SynIdle /\ PipeIdle /\ MigIdle /\ NormIdle /\ QuantIdle /\ OctIdle
InitSyn ==
    SynInit /\ NoiseIdle /\ RunIdle /\ PipeIdle /\ MigIdle /\ NormIdle /\ QuantIdle /\ OctIdle
InitPipe ==
    PipeInit /\ NoiseIdle /\ RunIdle /\ SynIdle /\ MigIdle /\ NormIdle /\ QuantIdle /\ OctIdle
InitMig ==
    MigInit /\ NoiseIdle /\ RunIdle /\ SynIdle /\ PipeIdle /\ NormIdle /\ QuantIdle /\ OctIdle
InitNorm ==
    NormInit /\ NoiseIdle /\ RunIdle /\ SynIdle /\ PipeIdle /\ MigIdle /\ QuantIdle /\ OctIdle
InitQuant ==
    QuantInit /\ NoiseIdle /\ RunIdle /\ SynIdle /\ PipeIdle /\ MigIdle /\ NormIdle /\ OctIdle
InitOct ==
    OctInit /\ NoiseIdle /\ RunIdle /\ SynIdle /\ PipeIdle /\ MigIdle /\ NormIdle /\ QuantIdle

SpecNoise == InitNoise /\ [][NoiseNext]_vars
SpecRuns == InitRuns /\ [][RunNext]_vars
SpecSyn == InitSyn /\ [][SynNext]_vars
SpecPipe == InitPipe /\ [][PipeNext]_vars
SpecMig == InitMig /\ [][MigNext]_vars
SpecNorm == InitNorm /\ [][NormNext]_vars
SpecQuant == InitQuant /\ [][QuantNext]_vars
SpecOct == InitOct /\ [][OctNext]_vars

(***************************************************************************)
(* Claims                                                                  *)
(***************************************************************************)
\* C1: a noise call that runs concurrently with another returns the field it
\* returns when run alone, whatever the interleaving of seeding and draws.
C1_ConcurrentCallsIsolated ==
    \A t \in Thread :
        tpc[t] = "done" => tfield[t] = FieldAlone(tfn[t], tseed[t])

\* C2: two independent runs derive the same seeds from a material name, and so
\* produce identical textures for it.
C2_SeedsStableAcrossRuns ==
    \A i \in 1..Min(rdone[1], rdone[2]) :
        /\ rseeds[1][i] = rseeds[2][i]
        /\ rtex[1][i] = rtex[2][i]

IsPow2(n) == n \in {1, 2, 4, 8, 16}

GenEnded == gpc \in {"done", "error"}
ImpEnded == ipc \in {"done", "exit", "error"}

\* C3: in a batch run an unregistered name is reported and skipped, and every
\* registered material after it in the list is still generated and saved.
C3_UnknownNameSkipped ==
    (GenEnded /\ gargs.res > 0) =>
        \A i \in 1..Len(gargs.materials) :
            (/\ gargs.materials[i] \in Registered
             /\ \E j \in 1..(i - 1) : gargs.materials[j] \notin Registered)
            => \A k \in {"BaseColor", "Normal", "Roughness", "Metallic", "Height", "AO"} :
                   <<gargs.materials[i], k>> \in DOMAIN gfs

\* C4 as stated: when the request of an unregistered name raises the error,
\* nothing has been created under the output root.
C4_NothingUnderRootAtNotFound ==
    gerr = "KeyError" => (DOMAIN gfs = {} /\ gdirs \subseteq {"."})

\* C4 amended: the unregistered name ends the run in KeyError with no write
\* for it; under the output root are exactly the directories and files of the
\* registered materials that precede it in the list.
C4_NoWriteForUnregistered ==
    gerr = "KeyError" =>
        LET before == {gargs.materials[j] : j \in 1..gi}
        IN  /\ gpc = "error"
            /\ gargs.materials[gi + 1] \notin Registered
            /\ before \subseteq Registered
            /\ gdirs = {"."} \cup before
            /\ DOMAIN gfs = {<<nm, SavedKinds(gargs.pack_orm)[k]>> :
                                nm \in before, k \in 1..Len(SavedKinds(gargs.pack_orm))}

\* C4 witness: the error was raised for an unregistered name after an earlier
\* material of the list had been written.
C4_Witness ==
    /\ gerr = "KeyError" /\ gi = 1
    /\ gargs.materials[2] = Unregistered
    /\ <<gargs.materials[1], "Normal">> \in DOMAIN gfs

\* C5: a resolution that is not a positive power of two is rejected before any
\* field is computed and before anything is written.
C5_BadResolutionRejected ==
    ~IsPow2(gargs.res) =>
        /\ glog = <<>>
        /\ DOMAIN gfs = {}
        /\ gdirs \subseteq {"."}
        /\ gpc # "done"

MigEnded == mpc \in {"summary", "crash", "exit"}

\* C6: a failure while processing one file never stops the run; every file
\* found is visited and given a status.
C6_FailureNeverStopsRun ==
    MigEnded => (mpc # "crash" /\ Len(mstatus) = Len(mfmt))

\* C7: at the summary every file has one status and the counters of the
\* summary add up to the total number of files, in a dry run as in a real run.
C7_CountersAddUp ==
    mpc = "summary" =>
        /\ Len(mstatus) = stats.total
        /\ stats.already_ktx2 + stats.migrated + stats.failed = stats.total

\* C8: when the source maps of one mapped material are missing, the importer
\* goes on; the mapped names after it whose sources exist get their files.
C8_ImportContinuesAfterMissing ==
    (ImpEnded /\ iargs.res > 0) =>
        \A i \in 1..Len(ImportOrder) :
            (\A k \in SrcKinds : <<MAP[ImportOrder[i]], k>> \in DOMAIN gfs)
            => \A sfx \in {"", "_n", "_mra", "_e"} : <<ImportOrder[i], sfx>> \in DOMAIN ifs

\* C9: over generate-then-import, the green channel of an imported normal map
\* is inverted at most once relative to the OpenGL map.
C9_GreenFlippedAtMostOnce ==
    \A k \in DOMAIN ifs : k[2] = "_n" => ifs[k].flips <= 1

InUnit(v) == 0 <= v.n /\ v.n <= v.d

\* C10: for every preset and constructor and all inputs in [0,1], the metallic,
\* roughness and AO values lie in [0,1] and their 8-bit channels in 0..255.
C10_ParametersInRange ==
    synPc = "out" =>
        /\ InUnit(synOut.m) /\ InUnit(synOut.r) /\ InUnit(synOut.ao)
        /\ \A i \in 1..3 : synOut.px[i] \in 0..255

\* C10 witness: a pixel whose unclamped AO (ice: 0.98 + 0.048) exceeds 1 was
\* synthesized and clamped to 1.
C10_Witness ==
    /\ synPc = "out" /\ synScript = "ext" /\ synMat = "ice" /\ synIn[2] = NoiseQ
    /\ synOut.ao.n = synOut.ao.d /\ synOut.px[3] = 255

\* byte b differs from v * 255 by at most one half
WithinHalf(v, b) ==
    LET diff == 2 * (b * v.d - 255 * v.n)
    IN  diff <= v.d /\ 0 - diff <= v.d

\* C11: every conversion of a [0,1] value to a channel byte rounds to nearest:
\* the stored metallic, roughness and AO bytes differ from value * 255 by at
\* most 0.5.
C11_QuantizationRounds ==
    synPc = "out" =>
        /\ WithinHalf(synOut.m, synOut.px[1])
        /\ WithinHalf(synOut.r, synOut.px[2])
        /\ WithinHalf(synOut.ao, synOut.px[3])

\* C12: the packed ORM image holds AO in red, roughness in green and metallic
\* in blue, and each channel equals the separately saved AO, Roughness and
\* Metallic byte of the same pixel.
C12_PackingKeepsValues ==
    (synPc = "saved" /\ "ORM" \in DOMAIN synFiles) =>
        synFiles["ORM"] = <<synFiles["AO"][1], synFiles["Roughness"][1],
                            synFiles["Metallic"][1]>>

\* C12 witness: a material was saved with the packed image, and its AO,
\* roughness and metallic bytes are three different values.
C12_Witness ==
    /\ synPc = "saved" /\ "ORM" \in DOMAIN synFiles
    /\ synFiles["ORM"][1] # synFiles["ORM"][2]
    /\ synFiles["ORM"][2] # synFiles["ORM"][3]
    /\ synFiles["ORM"][1] # synFiles["ORM"][3]

\* cyclic shift of a field by (oy, ox)
Shifted(f, oy, ox) ==
    [y \in 0..(FieldH - 1) |-> [x \in 0..(FieldW - 1) |->
        f[(y - oy) % FieldH][(x - ox) % FieldW]]]

\* C13: at every pixel, the first and last row and column included, the normal
\* is derived from dx = h[y][(x+1) mod W] - h[y][(x-1) mod W] and
\* dy = h[(y+1) mod H][x] - h[(y-1) mod H][x]; so a cyclic shift of the height
\* field by any offset shifts the normal field by the same offset.
C13_WraparoundDifferencing ==
    npc = "normal" =>
        /\ \A y \in 0..(FieldH - 1), x \in 0..(FieldW - 1) :
              LET dx == nh[y][(x + 1) % FieldW] - nh[y][(x - 1) % FieldW]
                  dy == nh[(y + 1) % FieldH][x] - nh[(y - 1) % FieldH][x]
                  p == nfield[y][x]
              IN  /\ p.nx = 0 - dx * Strength[nsrc].n
                  /\ p.ny \in {0 - dy * Strength[nsrc].n, dy * Strength[nsrc].n}
                  /\ (nconv = "opengl" => p.ny = 0 - dy * Strength[nsrc].n)
                  /\ p.nz = Strength[nsrc].d
        /\ \A oy \in 0..(FieldH - 1), ox \in 0..(FieldW - 1) :
              NormalOf(nsrc, Shifted(nh, oy, ox), nconv) = Shifted(nfield, oy, ox)

\* C13 witness: height_to_normal ran on a field whose first column has a
\* non-zero dx that comes from the last column.
C13_Witness ==
    /\ npc = "normal" /\ nsrc = "Stone_Terrain_Rock"
    /\ nh[0][FieldW - 1] # nh[0][1]
    /\ nfield[0][0].nx # 0
    /\ nh[FieldH - 1][0] # nh[1][0]
    /\ nfield[0][0].ny # 0

\* the field with every stored y component s replaced by 1 - s
Mirrored(f) ==
    [y \in 0..(FieldH - 1) |-> [x \in 0..(FieldW - 1) |->
        [f[y][x] EXCEPT !.ny = 0 - @]]]

\* C14: with the mirrored convention height_to_normal returns the field of the
\* default convention with the stored y component s replaced by 1 - s, x and z
\* unchanged; mirroring twice gives back the default field.
C14_MirroredConvention ==
    (npc = "normal" /\ nsrc \in Registered) =>
        LET default == height_to_normal_field(nh, Strength[nsrc], "opengl")
            mirrored == height_to_normal_field(nh, Strength[nsrc], "directx")
        IN  /\ nfield = IF nconv = "opengl" THEN default ELSE mirrored
            /\ mirrored = Mirrored(default)
            /\ \A y \in 0..(FieldH - 1), x \in 0..(FieldW - 1) :
                  /\ mirrored[y][x].nx = default[y][x].nx
                  /\ mirrored[y][x].nz = default[y][x].nz
            /\ Mirrored(mirrored) = default

\* C14 witness: height_to_normal ran with the mirrored convention on a field
\* with a pixel whose y component is not zero.
C14_Witness ==
    /\ npc = "normal" /\ nsrc \in Registered /\ nconv = "directx"
    /\ \E y \in 0..(FieldH - 1), x \in 0..(FieldW - 1) : nfield[y][x].ny > 0

\* C15: the value-noise fields tile seamlessly: in every row the interpolation
\* gives one pixel past the right edge (x = width) the value of x = 0, and in
\* every column it gives y = height the value of y = 0.
C15_NoiseTilesSeamlessly ==
    \A t \in Thread :
        tpc[t] = "done" =>
            LET at(x, y) == IF tfn[t] = "noise_layer"
                                THEN LayerPixel(tgrid[t], x, y, NoiseScale)
                                ELSE PerlinPixel(tgrid[t], x, y, NoiseScale)
            IN  /\ \A y \in 0..(NoiseH - 1) : at(NoiseW, y) = at(0, y)
                /\ \A x \in 0..(NoiseW - 1) : at(x, NoiseH) = at(x, 0)

\* the seeds of one material's noise layers and octaves, as a set
SeedSet(seeds) == {seeds[i] : i \in DOMAIN seeds}

\* C16: within a run, the lattice-noise seeds of two distinct materials of the
\* registry are disjoint.
C16_SeedsNeverCollide ==
    \A r \in Run :
        \A i, j \in 1..rdone[r] :
            i # j => SeedSet(rseeds[r][i]) \cap SeedSet(rseeds[r][j]) = {}

\* in a log of events, no file of a material is written before a field of
\* that material is computed
WritesFollowComputes(log) ==
    \A p, q \in 1..Len(log) :
        (p < q /\ log[p][1] = "write" /\ log[q][1] = "compute") => log[p][2] # log[q][2]

\* C17: for each material no output file is written until all of its maps
\* have been computed: every write of a material's files comes after the last
\* field computation of that material.
C17_WritesAfterAllMaps ==
    \A r \in Run : WritesFollowComputes(rlog[r])

\* C18: a field value outside [0,1] that reaches 8-bit quantization is a fatal
\* internal error; it is never silently clamped into range when the image is
\* produced.
C18_OutOfRangeIsFatal ==
    (qpc = "byte" /\ ~InUnit(qv)) => qerr # "none"

\* C19: the importer writes the black emissive file only when none exists for
\* the name: no step of an import changes an emissive file that is already in
\* the destination.
C19_ExistingEmissiveKept ==
    [][\A k \in DOMAIN ifs : k[2] = "_e" => (k \in DOMAIN ifs' /\ ifs'[k] = ifs[k])]_vars

\* C20: in dry-run mode the migration changes nothing for any input: no step
\* copies a file to the backup directory, starts a bake or modifies an asset
\* file; and when the run has ended, each AWTEX2 file with an existing source
\* has the status DRY_RUN.
C20_DryRunChangesNothing ==
    /\ [][margs.dry_run => UNCHANGED <<mfmt, mmeta, mbackup, mbakes>>]_vars
    /\ [](margs.dry_run =>
            /\ mbakes = <<>>
            /\ MigEnded =>
                  \A i \in 1..Len(mfmt) :
                      (mfmt[i] = "AWTEX2" /\ mmeta[i] = "ok")
                      => (i <= Len(mstatus) /\ mstatus[i] = "DRY_RUN"))

CeilDiv(a, b) == (a + b - 1) \div b

\* C21: the value-noise lattice has ceil(dimension / scale) + 2 entries per
\* axis: once a call has drawn its lattice, the lattice holds
\* (ceil(width / scale) + 2) * (ceil(height / scale) + 2) values, also when a
\* dimension is not a multiple of the scale.
C21_LatticeSizedByCeiling ==
    \A t \in Thread :
        tpc[t] \in {"interp", "done"} =>
            /\ grid_w = CeilDiv(NoiseW, NoiseScale) + 2
            /\ grid_h = CeilDiv(NoiseH, NoiseScale) + 2
            /\ Len(tgrid[t]) = (CeilDiv(NoiseW, NoiseScale) + 2) * (CeilDiv(NoiseH, NoiseScale) + 2)

RECURSIVE WeightedSum(_, _)
WeightedSum(layers, k) ==
    IF k = 0 THEN 0 ELSE WeightedSum(layers, k - 1) + layers[k].n * layers[k].amp
RECURSIVE AmpSum(_, _)
AmpSum(layers, k) == IF k = 0 THEN 0 ELSE AmpSum(layers, k - 1) + layers[k].amp

\* C22: a finished multi_octave_noise call with k octaves has summed k layers,
\* each with half the lattice scale and half the amplitude of the one before
\* it, and has divided the sum by the total amplitude; the result is in
\* [0,1] (the layers being in [0,1]).  For every k from 1 to MaxOctaves.
C22_OctavesDoubleFrequency ==
    moPc = "done" =>
        /\ Len(moLayers) = moOctaves
        /\ \A o \in 2..moOctaves :
              /\ 2 * moLayers[o].scale = moLayers[o - 1].scale
              /\ 2 * moLayers[o].amp = moLayers[o - 1].amp
        /\ moResult.n * (NoiseQ * AmpSum(moLayers, moOctaves))
             = WeightedSum(moLayers, moOctaves) * moResult.d
        /\ 0 <= moResult.n /\ moResult.n <= moResult.d

\* C23: in each material constructor every shaping step, the high-frequency
\* detail pass included, runs before the height field is resampled to the
\* output resolution: in the generator's log no "detail" computation of a
\* material comes after the resample of that material's height.
C23_NoShapingAfterResample ==
    \A p, q \in 1..Len(glog) :
        (p < q /\ glog[p][1] = "resample" /\ glog[p][3] = "height"
               /\ glog[q][2] = glog[p][2] /\ glog[q][1] = "compute")
        => glog[q][3] # "detail"

Abs(a) == IF a >= 0 THEN a ELSE 0 - a
SetMax(S) == CHOOSE a \in S : \A b \in S : b <= a

\* the pre-clamp values of a synthesizer for every noise input on the grid
RawValues(sc, preset) ==
    IF sc = "mra"
    THEN {MraRaw(preset, a, b, c) : a \in Unit, b \in Unit, c \in Unit}
    ELSE {ExtRaw(preset, a, b) : a \in Unit, b \in Unit}

\* the largest |value - base| of one channel over all noise inputs, as a
\* rational; base is in hundredths
MaxDeviation(sc, preset, channel, base) ==
    LET devs == {[n |-> Abs(v[channel].n - base * (v[channel].d \div 100)), d |-> v[channel].d] :
                    v \in RawValues(sc, preset)}
        den == (CHOOSE v \in devs : TRUE).d
    IN  [n |-> SetMax({v.n : v \in devs}), d |-> den]

RatLess(a, b) == a.n * b.d < b.n * a.d

\* C24: in both MRA synthesizers, for every preset with variation > 0, the
\* largest pre-clamp deviation from the preset base over all noise values is
\* strictly smaller for metallic than for roughness, and strictly smaller
\* for roughness than for AO.
C24_MetallicLeastAoMost ==
    (synPc = "out" /\ synScript \in {"mra", "ext"}
        /\ SynRegistry(synScript)[synMat].variation > 0)
    => LET preset == SynRegistry(synScript)[synMat]
           dm == MaxDeviation(synScript, preset, "m", preset.metallic)
           dr == MaxDeviation(synScript, preset, "r", preset.roughness)
           da == MaxDeviation(synScript, preset, "ao", preset.ao_base)
       IN  RatLess(dm, dr) /\ RatLess(dr, da)

\* C25: every {name}_mra.png has the channel layout R = Metallic,
\* G = Roughness, B = AO, whichever script wrote it: its first three channels
\* are the bytes of the metallic, roughness and AO values of the pixel, for
\* the file the importer writes from an ORM image as for the file
\* generate_mra_textures writes.
C25_MraLayoutEverywhere ==
    "_mra" \in DOMAIN synFiles =>
        /\ synFiles["_mra"][1] = (IF synScript = "pbr" THEN to_uint8(synOut.m) ELSE IntByte(synOut.m))
        /\ synFiles["_mra"][2] = (IF synScript = "pbr" THEN to_uint8(synOut.r) ELSE IntByte(synOut.r))
        /\ synFiles["_mra"][3] = (IF synScript = "pbr" THEN to_uint8(synOut.ao) ELSE IntByte(synOut.ao))

\* C26: in a real migration with backups enabled, whenever the bake is started
\* for a file the backup directory holds a copy of the content the file has
\* at that moment, and that content has the AWTEX2 signature; every file baked
\* in the run has such a backup; and no step copies a file that is in KTX2 or
\* unknown format into the backup directory, so an existing backup of such a
\* file is never overwritten.
C26_BackedUpBeforeBake ==
    /\ []((~margs.dry_run /\ ~margs.no_backup) =>
            /\ mpc = "bake" =>
                  /\ MigFile \in DOMAIN mbackup
                  /\ mbackup[MigFile] = mfmt[MigFile]
                  /\ mbackup[MigFile] = "AWTEX2"
            /\ \A k \in 1..Len(mbakes) :
                  mbakes[k] \in DOMAIN mbackup /\ mbackup[mbakes[k]] = "AWTEX2")
    /\ [][\A i \in 1..Len(mfmt) :
            mfmt[i] # "AWTEX2" =>
                IF i \in DOMAIN mbackup
                THEN i \in DOMAIN mbackup' /\ mbackup'[i] = mbackup[i]
                ELSE i \notin DOMAIN mbackup']_vars

\* a later run in which a file that is already KTX2 and has a backup from the
\* earlier run is skipped, and the bake of another file is about to start
C26_Witness ==
    /\ mrun = "later" /\ mpc = "bake" /\ ~margs.no_backup
    /\ MigFile = 2 /\ MigFile \in DOMAIN mbackup
    /\ mfmt[1] = "KTX2" /\ 1 \in DOMAIN mbackup /\ mbackup[1] = "AWTEX2"
    /\ mstatus = <<"SKIP">>

\* C27: a file reported SUCCESS has the KTX2 signature afterwards, and in a
\* later run over the unchanged file it is reported SKIP (when that run has
\* ended, the file has the status SKIP) and is neither backed up nor baked
\* again.
C27_MigrationIdempotent ==
    /\ [](/\ \A i \in 1..Len(mstatus) : mstatus[i] = "SUCCESS" => mfmt[i] = "KTX2"
          /\ mrun = "later" =>
                \A i \in 1..Len(mprev) :
                    mprev[i] = "SUCCESS" =>
                        /\ mfmt[i] = "KTX2"
                        /\ \A k \in 1..Len(mbakes) : mbakes[k] # i
                        /\ MigEnded => (i <= Len(mstatus) /\ mstatus[i] = "SKIP"))
    /\ [][mrun = "later" =>
            \A i \in 1..Len(mprev) :
                (mprev[i] = "SUCCESS" /\ i \in DOMAIN mbackup) => mbackup'[i] = mbackup[i]]_vars

\* C28: the two points of handedness conversion agree on the 8-bit result:
\* when the generator stored the OpenGL normal and the importer, at the same
\* resolution, is asked for DirectX, the green byte of the imported normal
\* map (255 - to_uint8(s)) is the byte the generator writes when it is asked
\* for DirectX itself (to_uint8(1 - s)).
C28_FlipPointsAgree ==
    (ipc # "idle" /\ gargs.normal_conv = "opengl" /\ iargs.normal_conv = "directx"
        /\ iargs.res = gargs.res)
    => \A k \in DOMAIN ifs :
          (k[2] = "_n" /\ ifs[k].flips = 1)
          => ifs[k].data = <<to_uint8(height_to_normal(nyS, "directx"))>>

\* C29: a material can be imported only after it was generated with ORM
\* packing.  When an import (at a valid resolution) has ended: for a mapped
\* name whose material has no ORM map the import has failed on the missing
\* maps and has written no file for that name; for a mapped name whose
\* material was generated with its ORM map the import has written the four
\* files {name}.png, {name}_n.png, {name}_mra.png and {name}_e.png.
C29_ImportNeedsPackedOrm ==
    (ImpEnded /\ iargs.res > 0) =>
        \A name \in DOMAIN MAP :
            IF <<MAP[name], "ORM">> \in DOMAIN gfs
            THEN /\ \A sfx \in {"", "_n", "_mra", "_e"} : <<name, sfx>> \in DOMAIN ifs
                 /\ ifs[<<name, "_e">>] = BlackFile(iargs.res)
            ELSE /\ ipc = "exit" /\ ierr = "Missing maps"
                 /\ \A sfx \in {"", "_n", "_mra", "_e"} :
                       <<name, sfx>> \in DOMAIN ifs
                       => (<<name, sfx>> \in DOMAIN DstBefore
                           /\ ifs[<<name, sfx>>] = DstBefore[<<name, sfx>>])

\* C30: generate_perlin_noise and noise_layer compute the same field for the
\* same width, height, scale and seed: for all positive dimensions and scales
\* up to MaxDim the lattice cell index of every pixel is at most the grid
\* size - 2 (arithmetic, evaluated in the states before any call has
\* started; also for the dimension and scales of the scripts' own calls), so
\* the index clamp never takes effect, every lattice access is in range, and
\* a finished call holds the field that the other function computes from the
\* same lattice.
C30_NoiseFunctionsAgree ==
    /\ (\A t \in Thread : tpc[t] = "call") =>
          /\ \A dim \in 1..MaxDim : \A scale \in 1..MaxDim : \A x \in 0..(dim - 1) :
                /\ x \div scale <= GridSize(dim, scale) - 2
                /\ (x \div scale) + 1 <= GridSize(dim, scale) - 1
          /\ \A scale \in CallScales : \A x \in 0..(RESOLUTION - 1) :
                x \div scale <= GridSize(RESOLUTION, scale) - 2
    /\ \A t \in Thread :
          tpc[t] = "done" =>
              /\ tfield[t] = NoiseField(IF tfn[t] = "noise_layer" THEN "generate_perlin_noise"
                                         ELSE "noise_layer", tgrid[t])
              /\ \A y \in 0..(NoiseH - 1) : \A x \in 0..(NoiseW - 1) :
                    /\ Min(x \div NoiseScale, grid_w - 2) = x \div NoiseScale
                    /\ Min(y \div NoiseScale, grid_h - 2) = y \div NoiseScale
                    /\ ((y \div NoiseScale) + 1) * grid_w + (x \div NoiseScale) + 1 + 1
                          <= Len(tgrid[t])

\* a finished generate_perlin_noise call in which a pixel lies in the last
\* lattice cell an index can reach (the height is no multiple of the scale)
\* and the interpolation between differing lattice values is visible
C30_Witness ==
    \E t \in Thread :
        /\ tpc[t] = "done" /\ tfn[t] = "generate_perlin_noise"
        /\ (NoiseH - 1) \div NoiseScale = grid_h - 2
        /\ tfield[t][0][NoiseW - 1] # tfield[t][0][0]

====
